---- MODULE Spec2Model ----
(***************************************************************************)
(* Gap detection and backfill of height-indexed block records              *)
(* (goldhaxx/btc-block-stats).  Five orchestrators are modelled:           *)
(*   block_hash.py, block_headers.py, block_stats.py   (scan strategy)     *)
(*   fetch_missing_blocks.py, audit_and_update_block_headers.py (bulk)     *)
(* A behaviour of Spec is a succession of runs of one orchestrator against *)
(* one record store and one remote RPC source; a behaviour of              *)
(* SpecInterrupt is one run that the operator may interrupt; a behaviour   *)
(* of SpecRunAll is one execution of run_all_scripts.py.  SpecScan is Spec  *)
(* restricted to the scan scripts, SpecOneRun a single run, SpecFair a     *)
(* single run that keeps taking steps, and SpecStartup a single run whose  *)
(* first query of the store or of the remote source may fail.              *)
(***************************************************************************)
EXTENDS Integers, Sequences, FiniteSets, TLC

VARIABLES
    script,     \* the orchestrator that runs
    chainTip,   \* the remote source's answer to getblockcount
    store,      \* the record store: table -> height -> row
    run,        \* number of the current run of the script
    pc,         \* position of the run
    rows,       \* audit rows not yet iterated (fetch_missing_blocks.py)
    curTable,   \* table_name of the drain in progress
    missing,    \* block_heights / range(start_block, end_block + 1)
    idx,        \* position of the drain in missing (1-based)
    blockHash,  \* local block_hash of a header fetch
    result,     \* what the fetch function returned to the orchestrator
    faults,     \* failures the environment has injected so far
    store0,     \* history: the store when the run began
    lastReq,    \* history: the last request sent to the remote source
    lastResp,   \* history: the remote source's last response
    ev,         \* history: what went wrong so far in this run
    skipped,    \* history: heights the drain left without a store call
    attempted,  \* history: table -> heights fetched in this run, in order
    prevRun,    \* history: how the previous run of the script went
    trail,      \* history: requests sent for the current height, outcome of
                \* its hash lookup, and the last line the run emitted
    main        \* run_all_scripts.main: its position, locals and calls

vars == <<script, chainTip, store, run, pc, rows, curTable, missing, idx,
          blockHash, result, faults, store0, lastReq, lastResp, ev,
          skipped, attempted, prevRun, trail, main>>

(***************************************************************************)
(* Bounds of the model.                                                    *)
(***************************************************************************)
MaxTip == 3        \* heights are 0 .. MaxTip
MaxFaults == 1     \* failures of the remote source and the store in a behaviour
MaxRuns == 2       \* successive runs of the script
MaxGaps == 2       \* rows a bulk audit may report missing, over all tables

Heights == 0 .. MaxTip

(***************************************************************************)
(* Program constants.                                                      *)
(***************************************************************************)
SCAN == {"block_hash.py", "block_headers.py", "block_stats.py"}
BULK == {"fetch_missing_blocks.py", "audit_and_update_block_headers.py"}
Scripts == SCAN \cup BULK
Tables == {"block_hashes", "block_headers", "block_stats"}
AuditOrder == <<"block_hashes", "block_headers", "block_stats">>

NoHash == 0 - 1                     \* Python None in place of a block hash
None == [kind |-> "None"]           \* Python None in place of a record
Absent == [kind |-> "absent"]       \* no row at this height
Malformed == [kind |-> "malformed"] \* a record that lacks a required field

\* The chain: the hash of the block at a height, and its inverse.
HashOf(h) == 100 + h
HeightOfHash(x) == x - 100

Present(st, t) == {h \in Heights : st[t][h] # Absent}

MaxOf(S) == CHOOSE x \in S : \A y \in S : y <= x
MinOf(S) == CHOOSE x \in S : \A y \in S : x <= y

RECURSIVE SortedSeq(_)
SortedSeq(S) == IF S = {} THEN <<>>
                ELSE LET m == MinOf(S) IN <<m>> \o SortedSeq(S \ {m})

\* Python range(a, b + 1)
RangeFromHighest(a, b) == [i \in 1 .. (b - a + 2) |-> a + i - 2]

Range(a, b) == [i \in 1 .. (b - a + 1) |-> a + i - 1]

(***************************************************************************)
(* Text: a Python str is a sequence of one-character strings.              *)
(***************************************************************************)
Digits == <<"0", "1", "2", "3", "4", "5", "6", "7", "8", "9">>
IsDigit(c) == \E i \in 1 .. 10 : Digits[i] = c
DigitVal(c) == (CHOOSE i \in 1 .. 10 : Digits[i] = c) - 1

\* str(n), n >= 0
RECURSIVE IntToStr(_)
IntToStr(n) == IF n < 10 THEN <<Digits[n + 1]>>
               ELSE IntToStr(n \div 10) \o <<Digits[(n % 10) + 1]>>

\* int(s) raises ValueError unless s is a non-empty run of digits
IntOk(s) == Len(s) > 0 /\ \A i \in 1 .. Len(s) : IsDigit(s[i])
RECURSIVE IntVal(_)
IntVal(s) == IF Len(s) = 0 THEN 0
             ELSE 10 * IntVal(SubSeq(s, 1, Len(s) - 1)) + DigitVal(s[Len(s)])

\* s.strip()
RECURSIVE Strip(_)
Strip(s) == IF Len(s) > 0 /\ s[1] = " " THEN Strip(Tail(s))
            ELSE IF Len(s) > 0 /\ s[Len(s)] = " "
                 THEN Strip(SubSeq(s, 1, Len(s) - 1))
                 ELSE s

\* s.split(',')
RECURSIVE Split(_)
Split(s) ==
    IF \A i \in 1 .. Len(s) : s[i] # ","
    THEN <<s>>
    ELSE LET i == MinOf({j \in 1 .. Len(s) : s[j] = ","})
         IN <<SubSeq(s, 1, i - 1)>> \o Split(SubSeq(s, i + 1, Len(s)))

(***************************************************************************)
(* The record store (Supabase).  The SQL functions are not part of the     *)
(* Python sources; they follow sections 4.2 and 4.3 of the specification.  *)
(***************************************************************************)
Row(t, h, at) ==
    IF t = "block_hashes"
    THEN [kind |-> "hash", height |-> h, hash |-> HashOf(h), at |-> at]
    ELSE IF t = "block_headers"
    THEN [kind |-> "header", height |-> h, hash |-> HashOf(h), at |-> at]
    ELSE [kind |-> "stats", height |-> h, at |-> at]

\* a slip: the row of a height that is already stored is replaced
UpsertOverwrite(st, t, row) == [st EXCEPT ![t][row.height] = row]

\* insert_block_hash / insert_block_header / insert_block_stat:
\* first writer wins, a duplicate height is a no-op
Upsert(st, t, row) ==
    IF st[t][row.height] = Absent
    THEN [st EXCEPT ![t][row.height] = row]
    ELSE st

\* the store's own maximum over the three tables, -1 when all are empty
StoreTip(st) ==
    LET all == UNION {Present(st, t) : t \in Tables}
    IN IF all = {} THEN 0 - 1 ELSE MaxOf(all)

\* missingHeights(datasetKind, tip)
MissingHeights(st, t, tip) == SortedSeq((0 .. tip) \ Present(st, t))

RECURSIVE JoinHeights(_)
JoinHeights(q) ==
    IF Len(q) = 0 THEN <<>>
    ELSE IF Len(q) = 1 THEN IntToStr(q[1])
    ELSE IntToStr(q[1]) \o <<",", " ">> \o JoinHeights(Tail(q))

\* How the audit reports a table with nothing missing.
EmptyForms == {"absent", "empty", "null"}

\* The order in which the audit lists the missing heights of a table: the
\* Python sources take the list as it comes.
AuditListings == {"ascending", "descending"}

Reverse(q) == [i \in 1 .. Len(q) |-> q[Len(q) + 1 - i]]

Listing(q, ord) == IF ord = "ascending" THEN q ELSE Reverse(q)

AuditRow(st, t, form, ord) ==
    LET q == Listing(MissingHeights(st, t, StoreTip(st)), ord)
    IN IF Len(q) > 0
       THEN <<[table_name |-> t,
               missing_block_heights |-> [null |-> FALSE, s |-> JoinHeights(q)]]>>
       ELSE IF form = "absent" THEN <<>>
       ELSE <<[table_name |-> t,
               missing_block_heights |-> [null |-> (form = "null"), s |-> <<>>]]>>

\* A row of the audit for a table the Python sources do not know.
UnknownTable == "block_transactions"
UnknownRow ==
    <<[table_name |-> UnknownTable,
       missing_block_heights |-> [null |-> FALSE, s |-> JoinHeights(<<0, 1>>)]]>>

\* audit_missing_block_heights
AuditMissingBlockHeights(st, form, ord) ==
    AuditRow(st, AuditOrder[1], form, ord) \o AuditRow(st, AuditOrder[2], form, ord)
        \o AuditRow(st, AuditOrder[3], form, ord)

(***************************************************************************)
(* Pure parts of the Python sources.                                       *)
(***************************************************************************)
\* `if missing_block_heights:` on an Optional[str]
Truthy(x) == ~x.null /\ Len(x.s) > 0

\* [int(h.strip()) for h in s.split(',')] raises no ValueError
ParseOk(s) == \A i \in 1 .. Len(Split(s)) : IntOk(Strip(Split(s)[i]))

\* a slip: only the first height of the list is kept
ParseHeightsFirstOnly(s) == <<IntVal(Strip(Split(s)[1]))>>

\* [int(h.strip()) for h in s.split(',')]
ParseHeights(s) == [i \in 1 .. Len(Split(s)) |-> IntVal(Strip(Split(s)[i]))]

TableOf(sc) ==
    IF sc = "block_hash.py" THEN "block_hashes"
    ELSE IF sc = "block_stats.py" THEN "block_stats"
    ELSE "block_headers"

\* `return result if result is not None else <sentinel>`
Sentinel(sc) == IF sc = "block_headers.py" THEN 0 - 1 ELSE 0

\* a slip: the stored maximum is ignored
get_highest_block_height_sentinel(st, sc) == Sentinel(sc)

\* get_highest_block_height() of the three scan scripts
get_highest_block_height(st, sc) ==
    IF Present(st, TableOf(sc)) = {} THEN Sentinel(sc)
    ELSE MaxOf(Present(st, TableOf(sc)))

get_block_count == chainTip

\* empty result of a 200 response: sleep and retry, or return it
RetryOnEmpty(sc, method) ==
    \/ sc = "block_stats.py" /\ method = "getblockstats"
    \/ sc = "block_headers.py" /\ method = "getblockheader"

\* a store exception: caught per height (scan) or by the outer try (bulk)
StoreErrorEndsRunNever(sc) == FALSE

StoreErrorEndsRun(sc) == sc \in BULK

\* outcomes of a store call
StoreOutcomes(sc) == IF sc \in SCAN THEN {"ok", "raise"}
                     ELSE {"ok", "nodata", "raise"}

\* the row a store_* function asks the store to insert
RowOf(t, h, res, at) ==
    IF t = "block_hashes"
    THEN [kind |-> "hash", height |-> h, hash |-> res.hash, at |-> at]
    ELSE IF t = "block_headers"
    THEN [kind |-> "header", height |-> res.height, hash |-> res.hash, at |-> at]
    ELSE [kind |-> "stats", height |-> res.height, at |-> at]

FirstFetchPc(sc, t) ==
    IF t = "block_hashes" THEN "fetch_hash"
    ELSE IF t = "block_stats" THEN "fetch_stats"
    ELSE IF sc = "block_headers.py" THEN "lookup_hash"
    ELSE "hdr_hash"

(***************************************************************************)
(* Initial states: a script, a chain tip and a store holding an arbitrary  *)
(* subset of the heights in each table the script reads or writes.  For a  *)
(* bulk script the tip is the store's own maximum: the store is empty or   *)
(* some table holds height MaxTip, and at most MaxGaps rows are missing.   *)
(***************************************************************************)
Touches(sc) ==
    IF sc = "block_hash.py" THEN {"block_hashes"}
    ELSE IF sc = "block_stats.py" THEN {"block_stats"}
    ELSE IF sc = "fetch_missing_blocks.py" THEN Tables
    ELSE {"block_hashes", "block_headers"}

\* the tables a script drains
Drains(sc) ==
    IF sc = "fetch_missing_blocks.py" THEN Tables ELSE {TableOf(sc)}

\* rows missing below the highest stored height, over the tables drained
GapCount(sc, p) ==
    LET all == UNION {p[t] : t \in Tables}
        tip == IF all = {} THEN 0 - 1 ELSE MaxOf(all)
        gaps == {x \in Drains(sc) \X (0 .. tip) : x[2] \notin p[x[1]]}
    IN Cardinality(gaps)

NoEvents == [rpcFail |-> FALSE, rpcNull |-> FALSE, storeRaise |-> FALSE,
             error |-> FALSE, malformed |-> FALSE,
             interrupt |-> FALSE, cut |-> None, queryFailed |-> "none"]
NoRequest == [method |-> "none", height |-> 0 - 1, param |-> 0 - 1]
NothingAttempted == [t \in Tables |-> <<>>]

\* lines a run emits (logging.info / print)
NoLine == [kind |-> "none"]
\* "Processed and stored <table> i/total - Block h"; `after` is what the
\* iteration did before the line: a store call that answered data ("ok") or
\* no data ("nodata"), an empty fetch ("empty"), an unknown table ("unknown")
Processed(t, i, total, h, after) ==
    [kind |-> "progress", table |-> t, i |-> i, total |-> total, height |-> h,
     after |-> after]
\* "Block hash for height h successfully processed and stored." (scan)
Stored(h) == [kind |-> "stored", height |-> h]
\* "All missing <table> processed."
TableProcessed(t) == [kind |-> "table", table |-> t]
\* the last line of a run
LastLine(text) == [kind |-> "last", text |-> text]
Completed == LastLine("Script execution completed.")
AllDone == LastLine("All missing blocks processed.")
ErrorOccurred == LastLine("An error occurred")
NoTrail == [sent |-> <<>>, lookup |-> "none", line |-> NoLine]

\* run_all_scripts.py is not running
MainIdle == [pc |-> "idle", i |-> 1, current_height |-> 0 - 1, calls |-> <<>>]

Init ==
    /\ script \in Scripts
    /\ chainTip \in Heights
    /\ script \in BULK => chainTip = MaxTip
    /\ \E p \in [Tables -> SUBSET Heights] :
          /\ \A t \in Tables : p[t] \subseteq 0 .. chainTip
          /\ \A t \in Tables \ Touches(script) : p[t] = {}
          /\ script \in BULK => GapCount(script, p) <= MaxGaps
          /\ script \in BULK =>
                \/ \A t \in Tables : p[t] = {}
                \/ \E t \in Tables : MaxTip \in p[t]
          /\ script = "audit_and_update_block_headers.py" =>
                \E k \in 0 .. MaxTip + 1 : p["block_hashes"] = 0 .. (k - 1)
          /\ store = [t \in Tables |->
                        [h \in Heights |-> IF h \in p[t] THEN Row(t, h, 0)
                                           ELSE Absent]]
    /\ run = 1
    /\ pc = "start"
    /\ rows = <<>>
    /\ curTable = TableOf(script)
    /\ missing = <<>>
    /\ idx = 1
    /\ blockHash = NoHash
    /\ result = None
    /\ faults = 0
    /\ store0 = store
    /\ lastReq = NoRequest
    /\ lastResp = "none"
    /\ ev = NoEvents
    /\ skipped = {}
    /\ attempted = NothingAttempted
    /\ prevRun = [clean |-> FALSE, storeRaiseOnly |-> FALSE]
    /\ trail = NoTrail
    /\ main = MainIdle

\* print / logging.info of a line
Emit(line) == trail' = [trail EXCEPT !.line = line]

\* the iteration of a height ends, having emitted a line or none
EndIteration(line) == trail' = [NoTrail EXCEPT !.line = line]

fixed == <<script, chainTip, run, store0, prevRun, main>>
fetchLocals == <<blockHash, result>>
remote == <<lastReq, lastResp>>
drain == <<rows, curTable, missing, idx>>
history == <<skipped, attempted>>

Height == missing[idx]

(***************************************************************************)
(* Auditing.                                                               *)
(***************************************************************************)
\* collect_block_hashes / collect_block_headers / collect_block_data,
\* up to the `for` loop
CollectStart ==
    /\ pc = "start"
    /\ script \in SCAN
    /\ LET start_block == get_highest_block_height(store, script) + 1
           end_block == get_block_count
       IN /\ missing' = Range(start_block, end_block)
          /\ pc' = IF start_block > end_block THEN "done" ELSE "loop"
          /\ trail' = [trail EXCEPT
                          !.sent = <<"getblockcount">>,
                          !.line = IF start_block > end_block THEN Completed ELSE @]
    /\ idx' = 1
    /\ curTable' = TableOf(script)
    /\ UNCHANGED <<fixed, store, rows, fetchLocals, remote, ev, history, faults>>

\* process_missing_blocks: missing_blocks = get_missing_blocks()
GetMissingBlocks ==
    /\ pc = "start"
    /\ script = "fetch_missing_blocks.py"
    /\ \E form \in EmptyForms, ord \in AuditListings, extra \in BOOLEAN :
          rows' = (IF extra THEN UnknownRow ELSE <<>>)
                      \o AuditMissingBlockHeights(store, form, ord)
    /\ pc' = "rows"
    /\ UNCHANGED <<fixed, store, curTable, missing, idx, fetchLocals, remote,
                   ev, history, faults, trail>>

\* process_missing_blocks: one iteration of `for table_info in missing_blocks`
NextTable ==
    /\ pc = "rows"
    /\ rows # <<>>
    /\ LET table_info == Head(rows)
           missing_block_heights == table_info.missing_block_heights
       IN /\ rows' = Tail(rows)
          /\ curTable' = table_info.table_name
          /\ IF Truthy(missing_block_heights)
             THEN IF ParseOk(missing_block_heights.s)
                  THEN /\ missing' = ParseHeights(missing_block_heights.s)
                       /\ pc' = "loop"
                       /\ ev' = ev
                       /\ trail' = trail
                  ELSE /\ missing' = <<>>
                       /\ pc' = "done"
                       /\ ev' = [ev EXCEPT !.error = TRUE]
                       /\ Emit(ErrorOccurred)
             ELSE /\ missing' = <<>>
                  /\ pc' = "rows"
                  /\ ev' = ev
                  /\ trail' = trail
    /\ idx' = 1
    /\ UNCHANGED <<fixed, store, fetchLocals, remote, history, faults>>

\* process_missing_blocks: the table loop is exhausted
AllProcessed ==
    /\ pc = "rows"
    /\ rows = <<>>
    /\ pc' = "done"
    /\ Emit(AllDone)
    /\ UNCHANGED <<fixed, store, drain, fetchLocals, remote, ev, history, faults>>

\* audit_and_update_block_headers: missing_heights = get_missing_block_headers()
GetMissingBlockHeaders ==
    /\ pc = "start"
    /\ script = "audit_and_update_block_headers.py"
    /\ \E form \in EmptyForms, ord \in AuditListings :
          LET data == AuditMissingBlockHeights(store, form, ord)
              hits == SelectSeq(data, LAMBDA item : item.table_name = "block_headers")
          IN IF hits = <<>>
             THEN missing' = <<>> /\ pc' = "loop" /\ ev' = ev /\ trail' = trail
             ELSE LET v == hits[1].missing_block_heights
                  IN IF ~v.null /\ ParseOk(v.s)
                     THEN /\ missing' = ParseHeights(v.s)
                          /\ pc' = "loop"
                          /\ ev' = ev
                          /\ trail' = trail
                     ELSE /\ missing' = <<>>
                          /\ pc' = "done"
                          /\ ev' = [ev EXCEPT !.error = TRUE]
                          /\ Emit(ErrorOccurred)
    /\ idx' = 1
    /\ curTable' = "block_headers"
    /\ UNCHANGED <<fixed, store, rows, fetchLocals, remote, history, faults>>

(***************************************************************************)
(* Draining.                                                               *)
(***************************************************************************)
\* the head of the height loop: the next height is handed to a fetch function
NextHeight ==
    /\ pc = "loop"
    /\ idx <= Len(missing)
    /\ curTable \in Tables
    /\ pc' = FirstFetchPc(script, curTable)
    /\ blockHash' = NoHash
    /\ result' = None
    /\ attempted' = [attempted EXCEPT ![curTable] = Append(@, Height)]
    /\ trail' = NoTrail
    /\ UNCHANGED <<fixed, store, drain, remote, ev, skipped, faults>>

\* process_missing_blocks: `else: logging.warning("Unknown table name")`,
\* then the progress log, then the next height
UnknownTableName ==
    /\ pc = "loop"
    /\ idx <= Len(missing)
    /\ curTable \notin Tables
    /\ idx' = idx + 1
    /\ pc' = "loop"
    /\ trail' = [NoTrail EXCEPT
                    !.line = Processed(curTable, idx, Len(missing), Height, "unknown")]
    /\ UNCHANGED <<fixed, store, rows, curTable, missing, fetchLocals, remote,
                   ev, history, faults>>

\* the height loop is exhausted
LoopExit ==
    /\ pc = "loop"
    /\ idx > Len(missing)
    /\ pc' = IF script = "fetch_missing_blocks.py" THEN "rows" ELSE "done"
    /\ Emit(IF script = "fetch_missing_blocks.py" THEN TableProcessed(curTable)
            ELSE IF script \in SCAN THEN Completed
            ELSE AllDone)
    /\ UNCHANGED <<fixed, store, drain, fetchLocals, remote, ev, history, faults>>

(***************************************************************************)
(* The remote RPC source and the fetch functions.                          *)
(***************************************************************************)
\* a request the remote source can serve
Valid(method, param) ==
    IF method = "getblockheader"
    THEN param # NoHash /\ HeightOfHash(param) \in 0 .. chainTip
    ELSE param \in 0 .. chainTip

\* what the remote source can answer: "fail" is a non-2xx response or a
\* network exception, "null" a 200 response whose result is null, "bad" a
\* 200 response whose result lacks a field the store function reads
Answers(method, param) ==
    IF ~Valid(method, param) THEN {"fail", "null"}
    ELSE IF method = "getblockhash" THEN {"fail", "null", "ok"}
    ELSE {"fail", "null", "bad", "ok"}

\* requests.post(rpc_url, headers=headers, json=payload) and its response;
\* a servable request that is not served is a failure of the environment
Rpc(method, param, o) ==
    /\ o \in Answers(method, param)
    /\ (Valid(method, param) /\ o # "ok") => faults < MaxFaults
    /\ faults' = IF Valid(method, param) /\ o # "ok" THEN faults + 1 ELSE faults
    /\ lastReq' = [method |-> method, height |-> Height, param |-> param]
    /\ lastResp' = o
    /\ trail' = [trail EXCEPT !.sent = Append(@, method)]
    /\ ev' = [ev EXCEPT !.rpcFail = @ \/ o = "fail",
                        !.rpcNull = @ \/ o = "null"]

\* time.sleep(retry_delay), then the `while True` loop goes round again
Retry(to) ==
    /\ pc' = to
    /\ result' = result

\* `return result`
Return(r) ==
    /\ result' = r
    /\ pc' = "got"

\* where a header fetch resumes after a failed getblockheader
HeaderRetryPc(sc) == IF sc = "block_headers.py" THEN "hdr_header" ELSE "hdr_hash"

\* block_hash.fetch_block_hash, fetch_missing_blocks.fetch_block_hash
FetchBlockHash ==
    /\ pc = "fetch_hash"
    /\ \E o \in {"fail", "null", "ok"} :
          /\ Rpc("getblockhash", Height, o)
          /\ IF o = "fail" THEN Retry("fetch_hash")
             ELSE IF o = "null" /\ RetryOnEmpty(script, "getblockhash")
             THEN Retry("fetch_hash")
             ELSE Return(IF o = "ok" THEN [kind |-> "hash", hash |-> HashOf(Height)]
                         ELSE None)
    /\ UNCHANGED <<fixed, store, drain, blockHash, history>>

\* block_stats.fetch_block_stats, fetch_missing_blocks.fetch_block_stats
FetchBlockStats ==
    /\ pc = "fetch_stats"
    /\ \E o \in {"fail", "null", "bad", "ok"} :
          /\ Rpc("getblockstats", Height, o)
          /\ IF o = "fail" THEN Retry("fetch_stats")
             ELSE IF o = "null" /\ RetryOnEmpty(script, "getblockstats")
             THEN Retry("fetch_stats")
             ELSE Return(IF o = "ok" THEN [kind |-> "stats", height |-> Height]
                         ELSE IF o = "bad" THEN Malformed
                         ELSE None)
    /\ UNCHANGED <<fixed, store, drain, blockHash, history>>

\* block_headers.get_block_hash_from_supabase, as called by fetch_block_header
GetBlockHashFromSupabase ==
    /\ pc = "lookup_hash"
    /\ \E failed \in BOOLEAN :
          LET row == store["block_hashes"][IntVal(IntToStr(Height))]
              found == ~failed /\ row # Absent
          IN /\ failed => (row # Absent /\ faults < MaxFaults)
             /\ faults' = IF failed THEN faults + 1 ELSE faults
             /\ blockHash' = IF found THEN row.hash ELSE NoHash
             /\ pc' = IF found THEN "hdr_header" ELSE "rpc_hash"
             /\ trail' = [trail EXCEPT !.lookup = IF failed THEN "failed"
                                                  ELSE IF found THEN "found"
                                                  ELSE "nothing"]
    /\ UNCHANGED <<fixed, store, drain, result, remote, ev, history>>

GetBlockHashFromBtcRpcRetrying ==
    /\ pc = "rpc_hash"
    /\ \E o \in {"fail", "null", "ok"} :
          /\ Rpc("getblockhash", Height, o)
          /\ blockHash' = IF o = "ok" THEN HashOf(Height) ELSE NoHash
          /\ pc' = IF o = "ok" THEN "hdr_header" ELSE "rpc_hash"
          /\ result' = result
    /\ UNCHANGED <<fixed, store, drain, history>>

\* block_headers.get_block_hash_from_btc_rpc and the `if not block_hash`
\* that follows it in fetch_block_header
GetBlockHashFromBtcRpc ==
    /\ pc = "rpc_hash"
    /\ \E o \in {"fail", "null", "ok"} :
          /\ Rpc("getblockhash", Height, o)
          /\ IF o = "ok"
             THEN /\ blockHash' = HashOf(Height)
                  /\ pc' = "hdr_header"
                  /\ result' = result
             ELSE /\ blockHash' = NoHash
                  /\ pc' = "got"
                  /\ result' = None
    /\ UNCHANGED <<fixed, store, drain, history>>

\* the getblockhash call of the two-call fetch_block_header
\* (fetch_missing_blocks.py, audit_and_update_block_headers.py)
HeaderGetBlockHash ==
    /\ pc = "hdr_hash"
    /\ \E o \in {"fail", "null", "ok"} :
          /\ Rpc("getblockhash", Height, o)
          /\ IF o = "fail"
             THEN Retry("hdr_hash") /\ blockHash' = blockHash
             ELSE /\ blockHash' = IF o = "ok" THEN HashOf(Height) ELSE NoHash
                  /\ pc' = "hdr_header"
                  /\ result' = result
    /\ UNCHANGED <<fixed, store, drain, history>>

\* the getblockheader call of every fetch_block_header
GetBlockHeader ==
    /\ pc = "hdr_header"
    /\ \E o \in {"fail", "null", "bad", "ok"} :
          /\ Rpc("getblockheader", blockHash, o)
          /\ IF o = "fail" THEN Retry(HeaderRetryPc(script))
             ELSE IF o = "null" /\ RetryOnEmpty(script, "getblockheader")
             THEN Retry("hdr_header")
             ELSE Return(IF o = "ok"
                         THEN [kind |-> "header", height |-> HeightOfHash(blockHash),
                               hash |-> blockHash]
                         ELSE IF o = "bad" THEN Malformed
                         ELSE None)
    /\ UNCHANGED <<fixed, store, drain, blockHash, history>>

(***************************************************************************)
(* The orchestrator's handling of what the fetch returned.                 *)
(***************************************************************************)
\* `if block_hash: store_block_hash(...)` and its header and stats twins
StoreRecord ==
    /\ pc = "got"
    /\ result # None
    /\ result # Malformed
    /\ \E o \in StoreOutcomes(script) :
          /\ o = "raise" => faults < MaxFaults
          /\ faults' = IF o = "raise" THEN faults + 1 ELSE faults
          /\ IF o = "raise"
             THEN /\ store' = store
                  /\ IF StoreErrorEndsRun(script)
                     THEN /\ pc' = "done"
                          /\ idx' = idx
                          /\ ev' = [ev EXCEPT !.storeRaise = TRUE, !.error = TRUE]
                          /\ EndIteration(ErrorOccurred)
                     ELSE /\ pc' = "loop"
                          /\ idx' = idx + 1
                          /\ ev' = [ev EXCEPT !.storeRaise = TRUE]
                          /\ EndIteration(NoLine)
             ELSE /\ store' = Upsert(store, curTable,
                                     RowOf(curTable, Height, result, run))
                  /\ pc' = "loop"
                  /\ idx' = idx + 1
                  /\ ev' = ev
                  /\ EndIteration(IF script \in SCAN THEN Stored(Height)
                                  ELSE Processed(curTable, idx, Len(missing), Height, o))
    /\ UNCHANGED <<fixed, rows, curTable, missing, fetchLocals, remote, history>>

\* store_block_header / store_block_stats read a field the record lacks:
\* KeyError (TypeError in block_stats.py) before the store is called, logged
\* and raised again; caught per height (scan) or by the outer try (bulk)
MalformedRecord ==
    /\ pc = "got"
    /\ result = Malformed
    /\ IF script \in SCAN
       THEN /\ pc' = "loop"
            /\ idx' = idx + 1
            /\ ev' = [ev EXCEPT !.malformed = TRUE]
            /\ EndIteration(NoLine)
       ELSE /\ pc' = "done"
            /\ idx' = idx
            /\ ev' = [ev EXCEPT !.malformed = TRUE, !.error = TRUE]
            /\ EndIteration(ErrorOccurred)
    /\ UNCHANGED <<fixed, store, rows, curTable, missing, fetchLocals, remote,
                   history, faults>>

\* the fetch returned None: nothing is stored and the loop moves on
SkipEmpty ==
    /\ pc = "got"
    /\ result = None
    /\ skipped' = skipped \cup {<<curTable, Height, lastResp>>}
    /\ pc' = "loop"
    /\ idx' = idx + 1
    /\ IF script = "fetch_missing_blocks.py"
       THEN EndIteration(Processed(curTable, idx, Len(missing), Height, "empty"))
       ELSE EndIteration(NoLine)
    /\ UNCHANGED <<fixed, store, rows, curTable, missing, fetchLocals, remote,
                   ev, attempted, faults>>

(***************************************************************************)
(* Successive runs.                                                        *)
(***************************************************************************)
\* the run stored every height it attempted
RunClean == ~ev.storeRaise /\ ~ev.error /\ ~ev.malformed /\ skipped = {}

\* the one thing that went wrong in the run is a store exception
StoreRaiseOnly ==
    ev.storeRaise /\ ~ev.rpcFail /\ ~ev.rpcNull /\ ~ev.malformed /\ skipped = {}

\* the script is started again over the same chain tip
NextRun ==
    /\ pc = "done"
    /\ run < MaxRuns
    /\ run' = run + 1
    /\ pc' = "start"
    /\ store0' = store
    /\ prevRun' = [clean |-> RunClean, storeRaiseOnly |-> StoreRaiseOnly]
    /\ rows' = <<>>
    /\ curTable' = TableOf(script)
    /\ missing' = <<>>
    /\ idx' = 1
    /\ blockHash' = NoHash
    /\ result' = None
    /\ lastReq' = NoRequest
    /\ lastResp' = "none"
    /\ ev' = NoEvents
    /\ skipped' = {}
    /\ attempted' = NothingAttempted
    /\ trail' = NoTrail
    /\ UNCHANGED <<script, chainTip, store, faults, main>>

Next ==
    \/ CollectStart
    \/ GetMissingBlocks
    \/ NextTable
    \/ AllProcessed
    \/ GetMissingBlockHeaders
    \/ NextHeight
    \/ UnknownTableName
    \/ LoopExit
    \/ FetchBlockHash
    \/ FetchBlockStats
    \/ GetBlockHashFromSupabase
    \/ GetBlockHashFromBtcRpc
    \/ HeaderGetBlockHash
    \/ GetBlockHeader
    \/ StoreRecord
    \/ MalformedRecord
    \/ SkipEmpty
    \/ NextRun

Spec == Init /\ [][Next]_vars

(***************************************************************************)
(* The scan scripts alone: successive runs of block_hash.py,               *)
(* block_headers.py or block_stats.py.                                     *)
(***************************************************************************)
InitScan == Init /\ script \in SCAN

NextScan ==
    \/ CollectStart
    \/ NextHeight
    \/ LoopExit
    \/ FetchBlockHash
    \/ FetchBlockStats
    \/ GetBlockHashFromSupabase
    \/ GetBlockHashFromBtcRpc
    \/ GetBlockHeader
    \/ StoreRecord
    \/ MalformedRecord
    \/ SkipEmpty
    \/ NextRun

SpecScan == InitScan /\ [][NextScan]_vars

(***************************************************************************)
(* Cancellation: one run of a script, during which the operator may press  *)
(* Ctrl-C.  Python raises KeyboardInterrupt at the statement in progress   *)
(* and unwinds through the enclosing `except` clauses.                     *)
(***************************************************************************)
\* the built-in exception classes involved, each with its base class
Parent(cls) ==
    IF cls = "RequestException" THEN "Exception" ELSE "BaseException"

RECURSIVE IsSubclass(_, _)
IsSubclass(cls, base) ==
    \/ cls = base
    \/ cls # "BaseException" /\ IsSubclass(Parent(cls), base)

\* `except <handler>` catches a KeyboardInterrupt
Catches(handler) == handler # "none" /\ IsSubclass("KeyboardInterrupt", handler)

\* positions inside the body of the height loop
FetchPcs == {"fetch_hash", "fetch_stats", "hdr_hash", "hdr_header"}
HeightPcs == FetchPcs \cup {"lookup_hash", "rpc_hash", "got"}

\* the innermost `except` around a position: the retry loop of a fetch
\* function, the `return None` of the two hash lookups of block_headers.py;
\* the store functions log and raise again
InnerExcept(p) ==
    IF p \in FetchPcs THEN "RequestException"
    ELSE IF p \in {"lookup_hash", "rpc_hash"} THEN "Exception"
    ELSE "none"

\* a bare `except:` around each height
PerHeightExceptBare(sc) == "BaseException"

\* the `except` around each height: the scan scripts have one
PerHeightExcept(sc) == IF sc \in SCAN THEN "Exception" ELSE "none"

\* where the run stands once the KeyboardInterrupt raised at p has unwound
AfterInterrupt(sc, p) ==
    IF Catches(InnerExcept(p))
    THEN IF p = "lookup_hash" THEN "rpc_hash"
         ELSE IF p = "rpc_hash" THEN "got"
         ELSE p
    ELSE IF p \in HeightPcs /\ Catches(PerHeightExcept(sc)) THEN "loop"
    ELSE "done"

KeyboardInterrupt ==
    /\ pc \in HeightPcs \cup {"loop", "rows"}
    /\ ~ev.interrupt
    /\ \E landed \in BOOLEAN :
          /\ landed => (pc = "got" /\ result # None /\ result # Malformed)
          /\ store' = IF landed
                      THEN Upsert(store, curTable, RowOf(curTable, Height, result, run))
                      ELSE store
          /\ ev' = [ev EXCEPT !.interrupt = TRUE,
                              !.cut = [pc |-> pc, store |-> store',
                                       lastReq |-> lastReq, attempted |-> attempted]]
    /\ pc' = AfterInterrupt(script, pc)
    /\ idx' = IF pc' = "loop" /\ pc # "loop" THEN idx + 1 ELSE idx
    /\ result' = IF pc' = "got" /\ pc # "got" THEN None ELSE result
    /\ IF pc' = "done" /\ script \in SCAN THEN Emit(Completed) ELSE trail' = trail
    /\ UNCHANGED <<fixed, rows, curTable, missing, blockHash, remote, history,
                   faults>>

NextInterruptible ==
    \/ CollectStart
    \/ GetMissingBlocks
    \/ NextTable
    \/ AllProcessed
    \/ GetMissingBlockHeaders
    \/ NextHeight
    \/ UnknownTableName
    \/ LoopExit
    \/ FetchBlockHash
    \/ FetchBlockStats
    \/ GetBlockHashFromSupabase
    \/ GetBlockHashFromBtcRpc
    \/ HeaderGetBlockHash
    \/ GetBlockHeader
    \/ StoreRecord
    \/ MalformedRecord
    \/ SkipEmpty
    \/ KeyboardInterrupt

SpecInterrupt == Init /\ [][NextInterruptible]_vars

(***************************************************************************)
(* Vocabulary of the properties.                                           *)
(***************************************************************************)
\* the tip of the run: the chain tip for a scan, the store's own maximum
\* when the run began for a bulk audit
Tip == IF script \in SCAN THEN chainTip ELSE StoreTip(store0)

\* [0, tip] \ S for table t, ascending, S being the heights stored when
\* the run began
Gaps(t) == SortedSeq((0 .. Tip) \ Present(store0, t))

\* the drain of curTable has its list of heights and has not begun
Audited == pc = "loop" /\ idx = 1

\* nothing failed so far: no fetch, no store call, no lookup
NoFailure == faults = 0 /\ ~ev.error

\* some row of the store the run began with was written by the previous run
PrevRunStored ==
    \E t \in Tables, h \in Heights :
        store0[t][h] # Absent /\ store0[t][h].at = run - 1

(***************************************************************************)
(* C1 (gap correctness).  The heights a run treats as missing for a table  *)
(* are exactly [0, tip] \ S in ascending order, S being the heights the    *)
(* table held when the run began.                                          *)
(***************************************************************************)
C1_GapCorrectness ==
    (Audited /\ curTable \in Tables) => missing = Gaps(curTable)

(***************************************************************************)
(* C2 (completeness).  When a run ends and nothing has failed, every table *)
(* the script drains holds a record at every height of [0, tip].           *)
(***************************************************************************)
C2_Completeness ==
    (run = 1 /\ pc = "done" /\ NoFailure) =>
        \A t \in Drains(script) : \A h \in 0 .. Tip : store[t][h] # Absent

C4_HashBeforeHeader ==
    lastReq.method = "getblockheader" => lastReq.param = HashOf(lastReq.height)

(***************************************************************************)
(* C5 (resilience).  A run in which the only failures are non-2xx          *)
(* responses or network exceptions of the remote source (no null result,   *)
(* no malformed record, no store exception) ends with the                  *)
(* store a failure-free run ends with: every height the run set out to     *)
(* fetch is stored and nothing else has changed.                           *)
(***************************************************************************)
Targets(t) ==
    IF script \in BULK
    THEN IF t \in Drains(script)
         THEN (0 .. StoreTip(store0)) \ Present(store0, t) ELSE {}
    ELSE IF t = TableOf(script)
         THEN (get_highest_block_height(store0, script) + 1) .. chainTip ELSE {}

FailureFreeStore ==
    [t \in Tables |->
        [h \in Heights |->
            IF store0[t][h] = Absent /\ h \in Targets(t) THEN Row(t, h, run)
            ELSE store0[t][h]]]

C5_Resilience ==
    (pc = "done" /\ ~ev.rpcNull /\ ~ev.malformed /\ ~ev.storeRaise)
        => store = FailureFreeStore

(***************************************************************************)
(* C6.  A fetch function never returns to the orchestrator right after a   *)
(* non-2xx response or a network exception: it returns only after an       *)
(* attempt that succeeded.                                                 *)
(***************************************************************************)
C6_FailureNeverReturned == pc = "got" => lastResp # "fail"

(***************************************************************************)
(* C7.  A fetch function never returns to the orchestrator right after a   *)
(* 200 response whose result is null: it retries the request.              *)
(***************************************************************************)
C7_EmptyResultRetried == pc = "got" => lastResp # "null"

(***************************************************************************)
(* C8.  No height is left without a store call, the drain moving on to the *)
(* next height, after a failed request to the remote source.               *)
(***************************************************************************)
C8_NoSkipAfterFailure == \A s \in skipped : s[3] # "fail"

(***************************************************************************)
(* C9.  Once a store call has raised, the run has ended: nothing more is   *)
(* fetched or stored in that run.                                          *)
(***************************************************************************)
C9_StoreFailureEndsRun == ev.storeRaise => pc = "done"

(***************************************************************************)
(* C10 (scenario).  From a table that is empty when the run begins, with   *)
(* tip = 2, a run in which nothing fails fetches heights 0, 1, 2 in that   *)
(* order and ends with heights 0, 1, 2 stored and 2 the highest.           *)
(***************************************************************************)
C10_EmptyStoreTipTwo ==
    \A t \in Drains(script) :
        (run = 1 /\ pc = "done" /\ NoFailure /\ Tip = 2 /\ Present(store0, t) = {})
            => /\ attempted[t] = <<0, 1, 2>>
               /\ Present(store, t) = {0, 1, 2}

(***************************************************************************)
(* C11 (scenario).  From a table holding heights {0, 2} when the run       *)
(* begins, with tip = 3, a run in which nothing fails fetches exactly      *)
(* heights 1 and 3, once each, ends with heights 0 .. 3 stored and leaves  *)
(* the rows at heights 0 and 2 as they were.                               *)
(***************************************************************************)
C11_StoreZeroTwoTipThree ==
    \A t \in Drains(script) :
        (run = 1 /\ pc = "done" /\ NoFailure /\ Tip = 3
                 /\ Present(store0, t) = {0, 2})
            => /\ attempted[t] \in {<<1, 3>>, <<3, 1>>}
               /\ Present(store, t) = {0, 1, 2, 3}
               /\ store[t][0] = store0[t][0]
               /\ store[t][2] = store0[t][2]

\* the part of the scenario the bulk scripts meet
C11_BulkOnly == script \in BULK => C11_StoreZeroTwoTipThree

(***************************************************************************)
(* Vocabulary of C12: what a table held when the run began, and a run that *)
(* has neither fetched for the table nor written to it.                    *)
(***************************************************************************)
HoldsAll(t) == Present(store0, t) = 0 .. Tip
MaxEqualsTip(t) ==
    Present(store0, t) # {} /\ MaxOf(Present(store0, t)) = Tip
NothingDone(t) == attempted[t] = <<>> /\ store[t] = store0[t]

(***************************************************************************)
(* C12 (nothing to do), as stated.  When tip < 0, or when the highest      *)
(* height the table held at the start of the run equals tip, the run ends  *)
(* having issued no fetch for the table and written nothing to it.         *)
(***************************************************************************)
C12_NothingToDo ==
    pc = "done" =>
        \A t \in Drains(script) : (Tip < 0 \/ MaxEqualsTip(t)) => NothingDone(t)

(***************************************************************************)
(* C12 (nothing to do), amended.  When tip < 0, or when the table held     *)
(* every height of [0, tip] at the start of the run, the run ends having   *)
(* issued no fetch for the table and written nothing to it; a scan script  *)
(* does so whenever the highest height of its table equals tip.            *)
(***************************************************************************)
C12_NothingToDoWhenComplete ==
    pc = "done" =>
        \A t \in Drains(script) :
            (HoldsAll(t) \/ (script \in SCAN /\ MaxEqualsTip(t))) => NothingDone(t)

\* a run has ended without a fetch for a table that was complete
C12_Witness ==
    /\ pc = "done"
    /\ Tip >= 0
    /\ \E t \in Drains(script) : HoldsAll(t) /\ attempted[t] = <<>>

\* a bulk run over three empty tables (tip < 0) has ended
C12_WitnessEmpty == pc = "done" /\ script \in BULK /\ Tip < 0

(***************************************************************************)
(* C13 (ascending order).  Within one table the heights a run fetches, and *)
(* therefore stores, come in strictly ascending order, however the audit   *)
(* lists them.                                                             *)
(***************************************************************************)
C13_AscendingOrder ==
    \A t \in Tables :
        \A i \in 1 .. Len(attempted[t]) - 1 : attempted[t][i] < attempted[t][i + 1]

\* the scan scripts do fetch in ascending order
C13_ScanOnly == script \in SCAN => C13_AscendingOrder

(***************************************************************************)
(* C14 (header dependency).  Once a run has stored the header of height h, *)
(* the hash table holds h: a hash that was absent when the header was      *)
(* backfilled has been fetched and stored as well.                         *)
(***************************************************************************)
C14_HashStoredWithHeader ==
    \A h \in Heights :
        (store0["block_headers"][h] = Absent /\ store["block_headers"][h] # Absent)
            => store["block_hashes"][h] # Absent

(***************************************************************************)
(* run_all_scripts.py: the height it reads for a table before it decides   *)
(* whether to start the table's scan script.                               *)
(***************************************************************************)
\* `response.data if response.data is not None else 0`
get_db_block_height(st, table_name) ==
    IF Present(st, table_name) = {} THEN 0 ELSE MaxOf(Present(st, table_name))

UpToDateNever(current_height, db_height) == FALSE

\* run_script: `if blocks_to_process <= 0:` -> "up to date", nothing is run
UpToDate(current_height, db_height) == current_height - db_height <= 0

\* the scan script finds `start_block > end_block` and returns
NoBlockToFetch(st, sc) == get_highest_block_height(st, sc) + 1 > get_block_count

(***************************************************************************)
(* C15 (sentinel consistency).  For every scan script and every store,     *)
(* run_all_scripts.get_db_block_height and the script's own                *)
(* get_highest_block_height return the same value, and run_script finds    *)
(* the table up to date exactly when the script would find no block to     *)
(* fetch.                                                                  *)
(***************************************************************************)
C15_SentinelConsistency ==
    script \in SCAN =>
        /\ get_db_block_height(store, TableOf(script))
               = get_highest_block_height(store, script)
        /\ UpToDate(get_block_count, get_db_block_height(store, TableOf(script)))
               <=> NoBlockToFetch(store, script)

\* the two agree for the scripts whose sentinel is 0
C15_HashAndStatsOnly == script # "block_headers.py" => C15_SentinelConsistency

(***************************************************************************)
(* C16 (unknown table).  Once the height loop has met a table name it does *)
(* not know, the run has ended with an error: the loop does not reach a    *)
(* second height of that table, nor the end of its list.                   *)
(***************************************************************************)
C16_UnknownTableIsFatal ==
    (curTable \notin Tables /\ idx > 1) => (pc = "done" /\ ev.error)

(***************************************************************************)
(* C17 (malformed record).  A record that lacks a required field is logged *)
(* and skipped: a run that met one does not end while heights of the list  *)
(* it was draining remain to be iterated.                                  *)
(***************************************************************************)
C17_MalformedIsSkipped == (ev.malformed /\ pc = "done") => idx >= Len(missing)

\* the scan scripts do skip the record and go on
C17_ScanOnly == script \in SCAN => C17_MalformedIsSkipped

(***************************************************************************)
(* C18 (resumability).  A run that follows a run which stopped early or    *)
(* left heights unstored, and which itself runs to its end, has fetched    *)
(* exactly the heights of [0, tip] its table lacked when it began.         *)
(***************************************************************************)
Elems(q) == {q[i] : i \in 1 .. Len(q)}

C18_Resumability ==
    (run >= 2 /\ ~prevRun.clean /\ pc = "done" /\ ~ev.error) =>
        \A t \in Drains(script) :
            Elems(attempted[t]) = (0 .. Tip) \ Present(store0, t)

\* the bulk scripts, which audit the whole of [0, tip], do resume
C18_BulkOnly == script \in BULK => C18_Resumability

C20_InterruptStopsFetching ==
    ev.interrupt =>
        /\ pc = "done"
        /\ lastReq = ev.cut.lastReq
        /\ attempted = ev.cut.attempted
        /\ \A t \in Tables, h \in Heights :
              ev.cut.store[t][h] # Absent => store[t][h] = ev.cut.store[t][h]

\* the interrupt arrived while a fetch function was sleeping before a retry,
\* in a run that had already stored a row
C20_Witness ==
    /\ ev.interrupt
    /\ ev.cut.pc \in FetchPcs
    /\ lastResp = "fail"
    /\ store # store0

(***************************************************************************)
(* C21 (outage).  After a request for height h has failed (non-2xx or      *)
(* network exception) and until the remote source answers again, the run   *)
(* is inside the fetch of h, about to send a request for h: it has not     *)
(* ended and has not moved to another height.  A remote source that fails  *)
(* every time therefore keeps the run on h for ever.                       *)
(***************************************************************************)
C21_StaysOnFailingHeight ==
    lastResp = "fail" =>
        /\ pc \in FetchPcs \cup {"rpc_hash"}
        /\ Height = lastReq.height

\* every script but block_headers.py stays on the failing height
C21_AllButBlockHeaders == script # "block_headers.py" => C21_StaysOnFailingHeight

(***************************************************************************)
(* Progress.  One run of a script, which takes its next step as long as it *)
(* has one: every loop of the scripts either sends a request, sleeps a     *)
(* bounded time or moves on, and the remote source fails at most MaxFaults *)
(* times.  The run ends when the process exits.                            *)
(***************************************************************************)
OneRun ==
    \/ CollectStart
    \/ GetMissingBlocks
    \/ NextTable
    \/ AllProcessed
    \/ GetMissingBlockHeaders
    \/ NextHeight
    \/ UnknownTableName
    \/ LoopExit
    \/ FetchBlockHash
    \/ FetchBlockStats
    \/ GetBlockHashFromSupabase
    \/ GetBlockHashFromBtcRpc
    \/ HeaderGetBlockHash
    \/ GetBlockHeader
    \/ StoreRecord
    \/ MalformedRecord
    \/ SkipEmpty

AuditPcs == {"start", "rows"}

\* the steps of a run once it holds a list of heights, and every step of a
\* scan script
Step == (script \in SCAN \/ pc \notin AuditPcs) /\ OneRun

\* the audit call of a bulk script returns and its rows are taken in turn
AuditReturns == []<>(script \in SCAN \/ pc \notin AuditPcs)

SpecFair == Init /\ [][OneRun]_vars /\ WF_vars(Step) /\ AuditReturns

\* one run of a script, without any assumption of progress
SpecOneRun == Init /\ [][OneRun]_vars

\* every height the run took from its missing sequences is stored
AllMissingStored ==
    \A t \in Tables : \A h \in Elems(attempted[t]) : store[t][h] # Absent

(***************************************************************************)
(* C22 (eventual completion).  When every request succeeds after finitely  *)
(* many failures and the store accepts every write, a run that starts      *)
(* eventually reaches the end with every height of its missing sequence    *)
(* stored.                                                                 *)
(***************************************************************************)
C22_EventualCompletion ==
    (pc = "start") ~>
        (pc = "done" /\ (ev.storeRaise \/ ev.malformed \/ ev.error \/ AllMissingStored))

\* a run that starts reaches its end
C22_Terminates == (pc = "start") ~> (pc = "done")

\* the height a scan run starts above: the greatest stored height of its
\* table when the run began, or the sentinel of the script
MaxHeight ==
    IF Present(store0, TableOf(script)) = {} THEN Sentinel(script)
    ELSE MaxOf(Present(store0, TableOf(script)))

(***************************************************************************)
(* C24 (scan range).  A scan script attempts exactly the heights           *)
(* maxHeight + 1 .. tip, each once and in ascending order, maxHeight being *)
(* the greatest stored height of its table or the sentinel; it fetches no  *)
(* height <= maxHeight, so a gap below maxHeight is left as it was.        *)
(***************************************************************************)
C24_ScanRange ==
    script \in SCAN =>
        LET a == attempted[TableOf(script)]
        IN /\ \A i \in 1 .. Len(a) : a[i] = MaxHeight + i
           /\ Len(a) <= chainTip - MaxHeight
           /\ pc = "done" => Len(a) = chainTip - MaxHeight
           /\ \A h \in Heights :
                 h <= MaxHeight =>
                     store[TableOf(script)][h] = store0[TableOf(script)][h]

C24_Witness ==
    /\ script \in SCAN
    /\ pc = "done"
    /\ Len(attempted[TableOf(script)]) >= 2
    /\ \E h \in Heights :
          /\ h < MaxHeight
          /\ store0[TableOf(script)][h] = Absent
          /\ store[TableOf(script)][h] = Absent

(***************************************************************************)
(* C26 (header retry).  In the two-call header fetch of the bulk scripts,  *)
(* when getblockheader fails after getblockhash gave a hash, the next      *)
(* request is getblockheader again, with the hash already resolved.        *)
(***************************************************************************)
C26_OnlyHeaderRetried ==
    (/\ script \in BULK
     /\ lastReq.method = "getblockheader"
     /\ lastReq.param # NoHash
     /\ lastResp = "fail")
        => (pc = "hdr_header" /\ blockHash = lastReq.param)

\* block_headers.py does send getblockheader again with the hash it holds
C26_BlockHeadersScript ==
    (/\ script = "block_headers.py"
     /\ lastReq.method = "getblockheader"
     /\ lastResp = "fail")
        => (pc = "hdr_header" /\ blockHash = lastReq.param)

(***************************************************************************)
(* C28 (no null hash).  No getblockheader request carries a null or empty  *)
(* hash parameter, in any header path.                                     *)
(***************************************************************************)
C28_NoNullHashParameter ==
    lastReq.method = "getblockheader" => lastReq.param # NoHash

\* the lookup-or-fetch path of block_headers.py never sends a null hash
C28_BlockHeadersScript == script = "block_headers.py" => C28_NoNullHashParameter

(***************************************************************************)
(* C29 (scan leaves gaps).  In a scan script, a height that is missing     *)
(* below a height the previous run stored is not attempted by the next     *)
(* run and is still missing at every point of it.                          *)
(***************************************************************************)
C29_SkippedStaysMissing ==
    (script \in SCAN /\ run > 1) =>
        \A h \in Heights :
            (/\ store0[TableOf(script)][h] = Absent
             /\ \E h2 \in Heights :
                   /\ h2 > h
                   /\ store0[TableOf(script)][h2] # Absent
                   /\ store0[TableOf(script)][h2].at = run - 1)
                => /\ h \notin Elems(attempted[TableOf(script)])
                   /\ store[TableOf(script)][h] = Absent

C29_Witness ==
    /\ script \in SCAN
    /\ run > 1
    /\ pc = "done"
    /\ ~prevRun.clean
    /\ \E h \in Heights :
          /\ store[TableOf(script)][h] = Absent
          /\ \E h2 \in Heights :
                /\ h2 > h
                /\ store0[TableOf(script)][h2] # Absent
                /\ store0[TableOf(script)][h2].at = run - 1

(***************************************************************************)
(* C23 (final count).  A run that has reached its end has emitted, as its  *)
(* last line, a count of processed and of skipped heights, and the two     *)
(* counts add up to the length of the run's missing sequence.              *)
(***************************************************************************)
C23_FinalCount ==
    pc = "done" =>
        /\ trail.line.kind = "count"
        /\ trail.line.processed + trail.line.skipped = Len(missing)

\* the last line of a run that ended is one of three fixed texts
C23_LastLineHasNoCount ==
    (pc = "done" /\ ~ev.interrupt) =>
        trail.line \in {Completed, AllDone, ErrorOccurred}

\* number of requests of a method sent for the current height
Sent(method) == Len(SelectSeq(trail.sent, LAMBDA m : m = method))

(***************************************************************************)
(* C25 (lookup or fetch).  In block_headers.py, for each height: when the  *)
(* store lookup gives the hash, no getblockhash request is sent; when the  *)
(* lookup gives nothing or fails, one getblockhash request is sent and no  *)
(* second one; when that request gives no hash, the fetch returns None     *)
(* and no getblockheader request is sent.                                  *)
(***************************************************************************)
C25_LookupOrFetch ==
    script = "block_headers.py" =>
        /\ trail.lookup = "found" => Sent("getblockhash") = 0
        /\ Sent("getblockhash") <= 1
        /\ (trail.lookup \in {"nothing", "failed"} /\ pc # "rpc_hash")
              => Sent("getblockhash") = 1
        /\ (Sent("getblockhash") = 1 /\ blockHash = NoHash)
              => /\ Sent("getblockheader") = 0
                 /\ pc \in {"got", "loop", "done"}
                 /\ pc = "got" => result = None

C25_Witness ==
    /\ script = "block_headers.py"
    /\ trail.lookup = "nothing"
    /\ trail.sent = <<"getblockhash">>
    /\ lastResp = "fail"
    /\ pc = "got"
    /\ result = None

\* the lookup gave the hash and the header was fetched with it
C25_WitnessFound ==
    /\ script = "block_headers.py"
    /\ trail.lookup = "found"
    /\ Sent("getblockheader") >= 1
    /\ pc = "got"

(***************************************************************************)
(* C30 (progress line).  Every line "Processed and stored <table> i/total  *)
(* - Block h" of a bulk script follows a store call of that iteration that *)
(* wrote the record of h: none follows an empty fetch, an unknown table    *)
(* name or a store call that reported no data.                             *)
(***************************************************************************)
C30_ProgressAfterWrite ==
    trail.line.kind = "progress" =>
        /\ trail.line.after = "ok"
        /\ trail.line.table \in Tables
        /\ store[trail.line.table][trail.line.height] # Absent

\* audit_and_update_block_headers.py emits the line only after a store call
C30_AuditAfterStoreCall ==
    (script = "audit_and_update_block_headers.py" /\ trail.line.kind = "progress")
        => trail.line.after \in {"ok", "nodata"}

(***************************************************************************)
(* run_all_scripts.py.  main reads the chain tip once, then for each scan  *)
(* script in turn reads the table's highest height and calls run_script,   *)
(* which either reports "up to date" or starts the script as a child       *)
(* process and waits for it to exit.                                       *)
(***************************************************************************)
scripts == <<[script |-> "block_stats.py", table |-> "block_stats"],
             [script |-> "block_hash.py", table |-> "block_hashes"],
             [script |-> "block_headers.py", table |-> "block_headers"]>>

ScriptIndex(sc) == CHOOSE i \in 1 .. Len(scripts) : scripts[i].script = sc

\* exit codes of a child process: 0, or non-zero when the interpreter dies
ExitCodes == {0, 1}

\* an entry of the history of main's calls
Call(sc, what, behind, code) ==
    [script |-> sc, what |-> what, behind |-> behind, code |-> code]

InitRunAll ==
    /\ script = "run_all_scripts.py"
    /\ chainTip \in Heights
    /\ \E k \in [Tables -> 0 .. chainTip + 1] :
          store = [t \in Tables |->
                     [h \in Heights |-> IF h < k[t] THEN Row(t, h, 0) ELSE Absent]]
    /\ run = 1
    /\ pc = "start"
    /\ rows = <<>>
    /\ curTable = "block_stats"
    /\ missing = <<>>
    /\ idx = 1
    /\ blockHash = NoHash
    /\ result = None
    /\ faults = 0
    /\ store0 = store
    /\ lastReq = NoRequest
    /\ lastResp = "none"
    /\ ev = NoEvents
    /\ skipped = {}
    /\ attempted = NothingAttempted
    /\ prevRun = [clean |-> FALSE, storeRaiseOnly |-> FALSE]
    /\ trail = NoTrail
    /\ main = [MainIdle EXCEPT !.pc = "start"]

childState == <<script, chainTip, run, pc, rows, curTable, missing, idx, blockHash,
                result, store0, lastReq, lastResp, ev, skipped, attempted,
                prevRun, trail>>

\* main: current_height = get_current_block_height(); an exception ends main
MainGetCurrentBlockHeight ==
    /\ main.pc = "start"
    /\ \E failed \in BOOLEAN :
          /\ failed => faults < MaxFaults
          /\ faults' = IF failed THEN faults + 1 ELSE faults
          /\ main' = IF failed THEN [main EXCEPT !.pc = "end"]
                     ELSE [main EXCEPT !.pc = "loop", !.current_height = chainTip]
    /\ UNCHANGED <<childState, store>>

\* main: one iteration of `for script, table in scripts` up to the return of
\* run_script for an up-to-date table or up to subprocess.Popen
MainRunScript ==
    /\ main.pc = "loop"
    /\ main.i <= Len(scripts)
    /\ \E failed \in BOOLEAN :
          /\ failed => faults < MaxFaults
          /\ faults' = IF failed THEN faults + 1 ELSE faults
          /\ LET sc == scripts[main.i].script
                 db_height == get_db_block_height(store, scripts[main.i].table)
                 behind == main.current_height - db_height
             IN main' =
                  IF failed THEN [main EXCEPT !.pc = "end"]
                  ELSE IF UpToDate(main.current_height, db_height)
                  THEN [main EXCEPT
                          !.i = @ + 1,
                          !.calls = Append(@, Call(sc, "up to date", behind, 0))]
                  ELSE [main EXCEPT
                          !.pc = "child",
                          !.calls = Append(@, Call(sc, "started", behind, 0))]
    /\ UNCHANGED <<childState, store>>

\* the child script runs and exits; process.wait() returns its exit code and
\* main breaks out of the loop when the code is not 0
ChildExits ==
    /\ main.pc = "child"
    /\ \E code \in ExitCodes :
       \E S \in SUBSET (get_highest_block_height(store, scripts[main.i].script) + 1
                            .. chainTip) :
          LET sc == scripts[main.i].script
              t == scripts[main.i].table
          IN /\ store' = [store EXCEPT ![t] =
                            [h \in Heights |-> IF h \in S THEN Row(t, h, run) ELSE @[h]]]
             /\ main' = [main EXCEPT
                           !.pc = IF code # 0 THEN "end" ELSE "loop",
                           !.i = IF code # 0 THEN @ ELSE @ + 1,
                           !.calls = Append(@, Call(sc, "exited", 0, code))]
    /\ UNCHANGED <<childState, faults>>

\* main: the loop is exhausted, "All scripts executed."
AllScriptsExecuted ==
    /\ main.pc = "loop"
    /\ main.i > Len(scripts)
    /\ main' = [main EXCEPT !.pc = "end"]
    /\ UNCHANGED <<childState, store, faults>>

NextRunAll ==
    \/ MainGetCurrentBlockHeight
    \/ MainRunScript
    \/ ChildExits
    \/ AllScriptsExecuted

SpecRunAll == InitRunAll /\ [][NextRunAll]_vars

(***************************************************************************)
(* C27 (orchestration order).  run_all_scripts.main handles block_stats.py,*)
(* block_hash.py and block_headers.py in that order and one at a time: a   *)
(* script is started only after every script started before it has exited, *)
(* so block_headers.py never starts before block_hash.py has exited; no    *)
(* script is started when current_height - db_height <= 0; and nothing is  *)
(* started after the first exit with a non-zero code.                      *)
(***************************************************************************)
C27_OrchestrationOrder ==
    LET c == main.calls
    IN /\ \A j \in 1 .. Len(c) : \A k \in 1 .. Len(c) :
             j < k => ScriptIndex(c[j].script) <= ScriptIndex(c[k].script)
       /\ \A k \in 1 .. Len(c) :
             c[k].what = "started" =>
                 /\ c[k].behind > 0
                 /\ \A j \in 1 .. k - 1 :
                       c[j].what = "started" =>
                           /\ j + 1 < k
                           /\ c[j + 1] = Call(c[j].script, "exited", 0, c[j + 1].code)
       /\ \A j \in 1 .. Len(c) :
             (c[j].what = "exited" /\ c[j].code # 0) => (j = Len(c) /\ main.pc = "end")
       /\ main.pc = "child" <=> (Len(c) > 0 /\ c[Len(c)].what = "started")

C27_Witness ==
    /\ main.pc = "end"
    /\ Len(main.calls) = 5
    /\ main.calls[1].what = "up to date"
    /\ main.calls[2] = Call("block_hash.py", "started", main.calls[2].behind, 0)
    /\ main.calls[3] = Call("block_hash.py", "exited", 0, 0)
    /\ main.calls[4].script = "block_headers.py" /\ main.calls[4].what = "started"
    /\ main.calls[5].code # 0

\* the tables of the audit rows process_missing_blocks has not yet taken
TablesAhead == {rows[i].table_name : i \in 1 .. Len(rows)}

(***************************************************************************)
(* C31 (store exception in fetch_missing_blocks.py).  An exception of a    *)
(* store function ends the whole run of process_missing_blocks: the height *)
(* loop stops at the failing height, no table listed later in the audit    *)
(* result is fetched or stored, and the function reports the error and     *)
(* returns.                                                                *)
(***************************************************************************)
C31_StoreExceptionStopsRun ==
    (script = "fetch_missing_blocks.py" /\ ev.storeRaise) =>
        /\ pc = "done"
        /\ trail.line = ErrorOccurred
        /\ idx <= Len(missing)
        /\ lastReq.height = Height
        /\ attempted[curTable][Len(attempted[curTable])] = Height
        /\ store[curTable][Height] = store0[curTable][Height]
        /\ \A t \in (TablesAhead \cap Tables) \ {curTable} :
              /\ attempted[t] = <<>>
              /\ store[t] = store0[t]

C31_Witness ==
    /\ script = "fetch_missing_blocks.py"
    /\ ev.storeRaise
    /\ pc = "done"
    /\ \E t \in TablesAhead \cap Tables : \E h \in Heights :
          h <= Tip /\ store[t][h] = Absent

(***************************************************************************)
(* The queries a run makes before its first fetch, and their failures:     *)
(* get_highest_block_height and get_block_count in the scan scripts,       *)
(* get_missing_blocks and get_missing_block_headers in the bulk scripts.   *)
(* Each logs the exception and raises it again; none is inside a loop.     *)
(***************************************************************************)
AfterQueryFailureRetried(sc) == "start"

\* the exception reaches the outer `except Exception` of the orchestrator
AfterQueryFailure(sc) == "done"

TipQueryFailures == {"get_highest_block_height raises", "get_block_count raises",
                     "get_block_count returns None"}

\* a scan script: get_highest_block_height raises, or get_block_count raises,
\* or it returns None and `end_block - start_block + 1` raises TypeError
TipQueryFails ==
    /\ pc = "start"
    /\ script \in SCAN
    /\ ev.queryFailed = "none"
    /\ faults < MaxFaults
    /\ faults' = faults + 1
    /\ \E how \in TipQueryFailures :
          /\ ev' = [ev EXCEPT !.error = TRUE, !.queryFailed = how]
          /\ trail' = [trail EXCEPT
                          !.sent = IF how = "get_highest_block_height raises"
                                   THEN @ ELSE Append(@, "getblockcount"),
                          !.line = Completed]
    /\ pc' = AfterQueryFailure(script)
    /\ UNCHANGED <<fixed, store, drain, fetchLocals, remote, history>>

\* a bulk script: supabase.rpc('audit_missing_block_heights').execute() raises
AuditQueryFails ==
    /\ pc = "start"
    /\ script \in BULK
    /\ ev.queryFailed = "none"
    /\ faults < MaxFaults
    /\ faults' = faults + 1
    /\ ev' = [ev EXCEPT !.error = TRUE, !.queryFailed = "audit_missing_block_heights raises"]
    /\ Emit(ErrorOccurred)
    /\ pc' = AfterQueryFailure(script)
    /\ UNCHANGED <<fixed, store, drain, fetchLocals, remote, history>>

NextStartup ==
    \/ OneRun
    \/ TipQueryFails
    \/ AuditQueryFails

\* one run of a script in which the queries before the first fetch may fail
SpecStartup == Init /\ [][NextStartup]_vars

(***************************************************************************)
(* C32 (failed audit or tip query).  When the audit query, the query of    *)
(* the highest stored height or the tip query fails, or the tip query      *)
(* answers null, the run ends without a record fetch and without a store   *)
(* write, the store is as it was, and the tip query was sent at most once. *)
(***************************************************************************)
C32_QueryFailureEndsRun ==
    /\ Sent("getblockcount") <= 1
    /\ ev.queryFailed # "none" =>
          /\ pc = "done"
          /\ store = store0
          /\ attempted = NothingAttempted
          /\ lastReq = NoRequest
          /\ skipped = {}
          /\ Sent("getblockcount") =
                IF ev.queryFailed \in {"get_block_count raises",
                                       "get_block_count returns None"}
                THEN 1 ELSE 0
          /\ trail.line = IF script \in SCAN THEN Completed ELSE ErrorOccurred

C32_Witness ==
    /\ ev.queryFailed = "get_block_count returns None"
    /\ pc = "done"
    /\ \E h \in Heights : h <= chainTip /\ store[TableOf(script)][h] = Absent

\* the audit query of a bulk script failed while heights were missing
C32_WitnessAudit ==
    /\ ev.queryFailed = "audit_missing_block_heights raises"
    /\ pc = "done"
    /\ \E h \in Heights : h <= StoreTip(store) /\ store["block_headers"][h] = Absent

\* the table misses no height of [0, tip] when the run begins
NothingMissing(t) == Gaps(t) = <<>>

(***************************************************************************)
(* C33 (nothing missing).  When no header height is missing,               *)
(* audit_and_update_block_headers.py ends normally without a fetch,        *)
(* whether the audit result has no block_headers row or has one whose      *)
(* value is empty or null; fetch_missing_blocks.py fetches nothing for a   *)
(* table whose row has an empty value.                                     *)
(***************************************************************************)
C33_NothingMissingEndsNormally ==
    /\ (/\ script = "audit_and_update_block_headers.py"
        /\ pc = "done"
        /\ NothingMissing("block_headers"))
          => /\ ~ev.error
             /\ trail.line = AllDone
             /\ attempted = NothingAttempted
             /\ lastReq = NoRequest
    /\ script = "fetch_missing_blocks.py" =>
          \A t \in Tables : NothingMissing(t) => attempted[t] = <<>>

\* fetch_missing_blocks.py fetches nothing for a table that misses nothing
C33_ProcessMissingBlocks ==
    script = "fetch_missing_blocks.py" =>
        \A t \in Tables : NothingMissing(t) => attempted[t] = <<>>

\* audit_and_update_block_headers.py never fetches when no header is missing
C33_AuditFetchesNothing ==
    (script = "audit_and_update_block_headers.py" /\ NothingMissing("block_headers"))
        => (attempted = NothingAttempted /\ lastReq = NoRequest)

====
